---------------------------- MODULE Spec2Model ----------------------------
(***************************************************************************)
(* Model of DadosAbertosBrasil/favoritos.py: the thirteen public           *)
(* operations of the module, the three per-state lookup tables, and the    *)
(* collaborators they call (parse.uf, pandas readers, requests.get,        *)
(* bacen.serie, ipea.serie).                                               *)
(*                                                                         *)
(* Text that the program manipulates (lower-casing, f-string formatting,   *)
(* concatenation, dictionary keys) is a sequence of Unicode code points:   *)
(* 'SC' is <<83,67>>.  Text that is only passed along (series codes,       *)
(* column names, fixed dataset URLs, keyword names) is a TLA+ string.      *)
(*                                                                         *)
(* The module has no state of its own.  The model records the call that    *)
(* was made last (its arguments, its outcome, the requests it issued to    *)
(* the collaborators and their answers) and whether that call repeated     *)
(* the one before it.                                                      *)
(***************************************************************************)
EXTENDS Integers, Sequences, FiniteSets, TLC

VARIABLES last, repeated

vars == <<last, repeated>>

---------------------------------------------------------------------------
(* The records of the model.  Every record lists its fields in the order   *)
(* given here.                                                             *)

NoError == [type |-> "none", origin |-> "none", message |-> <<>>]

\* a call that returned value, after the given requests and their answers
Returned(op, args, value, requests, responses) ==
  [op |-> op, args |-> args, value |-> value, requests |-> requests,
   responses |-> responses, status |-> "returned", error |-> NoError]

\* a call that raised error
Raised(op, args, error, requests, responses) ==
  [op |-> op, args |-> args, value |-> <<>>, requests |-> requests,
   responses |-> responses, status |-> "raised", error |-> error]

\* a request to a collaborator
Request(fn, target, options) ==
  [fn |-> fn, target |-> target, options |-> options]

\* a collaborator's answer to one request: a dataset, or a failure
Result(value, error, ok) == [value |-> value, error |-> error, ok |-> ok]

\* a table: its column names in order, and its rows
Frame(columns, data) == [columns |-> columns, data |-> data]

\* the arguments of a call
ArgsUF(uf) == [uf |-> uf]
ArgsImagem(uf, tamanho) == [uf |-> uf, tamanho |-> tamanho]
ArgsReservas(periodo, kwargs) == [periodo |-> periodo, kwargs |-> kwargs]
ArgsSalario(tipo, index) == [tipo |-> tipo, index |-> index]
ArgsBacen(kwargs) == [kwargs |-> kwargs]
ArgsIpea(index) == [index |-> index]
NoArgs == <<>>

---------------------------------------------------------------------------
(* Bounds of the model.                                                    *)

\* sizes -MaxTamanho..MaxTamanho are tried besides 100, 200 and -200
MaxTamanho == 1
\* the collaborators answer with one of the datasets 1..MaxPayload
MaxPayload == 1
\* the callers pass up to MaxKwargs keyword options through
MaxKwargs == 1
\* the upstream municipality table carries up to MaxExtras more columns
MaxExtras == 1

---------------------------------------------------------------------------
(* Python built-ins used by the module, on code-point text.                *)

Range(s) == {s[i] : i \in DOMAIN s}

RECURSIVE Concat(_)
Concat(parts) ==
  IF parts = <<>> THEN <<>> ELSE Head(parts) \o Concat(Tail(parts))

\* str.lower() on the Latin-1 range: A-Z and the accented capitals
\* U+00C0..U+00DE (but U+00D7, the multiplication sign) move down by 32.
IsUpperCp(c) == (c >= 65 /\ c <= 90) \/ (c >= 192 /\ c <= 222 /\ c # 215)
LowerCp(c) == IF IsUpperCp(c) THEN c + 32 ELSE c
\* (variant: the comparison made without folding the case)
lower_identity(s) == s
lower(s) == [i \in DOMAIN s |-> LowerCp(s[i])]

\* str(int), as the replacement field {tamanho} of an f-string renders it
RECURSIVE Digits(_)
Digits(n) ==
  IF n < 10 THEN <<48 + n>> ELSE Digits(n \div 10) \o <<48 + (n % 10)>>
\* (variant: the sign is dropped)
str_abs(n) == IF n < 0 THEN Digits(-n) ELSE Digits(n)
str(n) == IF n < 0 THEN <<45>> \o Digits(-n) ELSE Digits(n)

\* An f-string is a sequence of literal parts and replacement fields; the
\* only replacement field of the module's tables is {tamanho}.
TAMANHO == <<-1>>
fstring(parts, n) ==
  Concat([i \in DOMAIN parts |-> IF parts[i] = TAMANHO THEN str(n) ELSE parts[i]])

\* A dict display {k1: v1, k2: v2, ...}: a later item with the same key
\* replaces an earlier one.  The dict is the function from its keys.
dict_literal(items) ==
  [k \in {items[i][1] : i \in DOMAIN items} |->
     items[CHOOSE i \in DOMAIN items :
             /\ items[i][1] = k
             /\ \A j \in (i + 1)..Len(items) : items[j][1] # k][2]]

---------------------------------------------------------------------------
(* parse.uf: the state identifier resolver.  Upper-cases the input,        *)
(* strips its diacritics and looks it up among the canonical codes and     *)
(* the full names; FN and GB only with extintos=True.                      *)

UF_NAMES ==
  <<
    <<<<66,82,65,83,73,76>>, <<66,82>>>>,  \* BRASIL -> BR
    <<<<65,67,82,69>>, <<65,67>>>>,  \* ACRE -> AC
    <<<<65,76,65,71,79,65,83>>, <<65,76>>>>,  \* ALAGOAS -> AL
    <<<<65,77,65,90,79,78,65,83>>, <<65,77>>>>,  \* AMAZONAS -> AM
    <<<<65,77,65,80,65>>, <<65,80>>>>,  \* AMAPA -> AP
    <<<<66,65,72,73,65>>, <<66,65>>>>,  \* BAHIA -> BA
    <<<<67,69,65,82,65>>, <<67,69>>>>,  \* CEARA -> CE
    <<<<68,73,83,84,82,73,84,79,32,70,69,68,69,82,65,76>>, <<68,70>>>>,  \* DISTRITO FEDERAL -> DF
    <<<<69,83,80,73,82,73,84,79,32,83,65,78,84,79>>, <<69,83>>>>,  \* ESPIRITO SANTO -> ES
    <<<<71,79,73,65,83>>, <<71,79>>>>,  \* GOIAS -> GO
    <<<<77,65,82,65,78,72,65,79>>, <<77,65>>>>,  \* MARANHAO -> MA
    <<<<77,73,78,65,83,32,71,69,82,65,73,83>>, <<77,71>>>>,  \* MINAS GERAIS -> MG
    <<<<77,65,84,79,32,71,82,79,83,83,79,32,68,79,32,83,85,76>>, <<77,83>>>>,  \* MATO GROSSO DO SUL -> MS
    <<<<77,65,84,79,32,71,82,79,83,83,79>>, <<77,84>>>>,  \* MATO GROSSO -> MT
    <<<<80,65,82,65>>, <<80,65>>>>,  \* PARA -> PA
    <<<<80,65,82,65,73,66,65>>, <<80,66>>>>,  \* PARAIBA -> PB
    <<<<80,69,82,78,65,77,66,85,67,79>>, <<80,69>>>>,  \* PERNAMBUCO -> PE
    <<<<80,73,65,85,73>>, <<80,73>>>>,  \* PIAUI -> PI
    <<<<80,65,82,65,78,65>>, <<80,82>>>>,  \* PARANA -> PR
    <<<<82,73,79,32,68,69,32,74,65,78,69,73,82,79>>, <<82,74>>>>,  \* RIO DE JANEIRO -> RJ
    <<<<82,73,79,32,71,82,65,78,68,69,32,68,79,32,78,79,82,84,69>>, <<82,78>>>>,  \* RIO GRANDE DO NORTE -> RN
    <<<<82,79,78,68,79,78,73,65>>, <<82,79>>>>,  \* RONDONIA -> RO
    <<<<82,79,82,65,73,77,65>>, <<82,82>>>>,  \* RORAIMA -> RR
    <<<<82,73,79,32,71,82,65,78,68,69,32,68,79,32,83,85,76>>, <<82,83>>>>,  \* RIO GRANDE DO SUL -> RS
    <<<<83,65,78,84,65,32,67,65,84,65,82,73,78,65>>, <<83,67>>>>,  \* SANTA CATARINA -> SC
    <<<<83,69,82,71,73,80,69>>, <<83,69>>>>,  \* SERGIPE -> SE
    <<<<83,65,79,32,80,65,85,76,79>>, <<83,80>>>>,  \* SAO PAULO -> SP
    <<<<84,79,67,65,78,84,73,78,83>>, <<84,79>>>>  \* TOCANTINS -> TO
  >>

UF_NAMES_EXTINTOS ==
  <<
    <<<<70,69,82,78,65,78,68,79,32,68,69,32,78,79,82,79,78,72,65>>, <<70,78>>>>,  \* FERNANDO DE NORONHA -> FN
    <<<<71,85,65,78,65,66,65,82,65>>, <<71,66>>>>  \* GUANABARA -> GB
  >>

UpperCp(c) ==
  IF (c >= 97 /\ c <= 122) \/ (c >= 224 /\ c <= 254 /\ c # 247)
  THEN c - 32 ELSE c

StripCp(c) ==
  CASE c \in 192..197 -> 65
    [] c = 199 -> 67
    [] c \in 200..203 -> 69
    [] c \in 204..207 -> 73
    [] c = 209 -> 78
    [] c \in 210..214 -> 79
    [] c \in 217..220 -> 85
    [] c = 221 -> 89
    [] OTHER -> c

normalize(s) == [i \in DOMAIN s |-> StripCp(UpperCp(s[i]))]

CurrentCodes == {UF_NAMES[i][2] : i \in DOMAIN UF_NAMES}
ExtinctCodes == {UF_NAMES_EXTINTOS[i][2] : i \in DOMAIN UF_NAMES_EXTINTOS}
StateCodes == CurrentCodes \cup ExtinctCodes

Canonical(names) == [i \in DOMAIN names |-> <<names[i][2], names[i][2]>>]
UFS_ATUAIS == dict_literal(Canonical(UF_NAMES) \o UF_NAMES)
UFS_TODOS ==
  dict_literal(Canonical(UF_NAMES \o UF_NAMES_EXTINTOS)
               \o UF_NAMES \o UF_NAMES_EXTINTOS)
UFS(extintos) == IF extintos THEN UFS_TODOS ELSE UFS_ATUAIS

DAB_UFError(uf) ==
  [type |-> "DAB_UFError", origin |-> "parse.uf", message |-> uf]

parse_uf(uf, extintos) ==
  LET key == normalize(uf)
      ufs == UFS(extintos)
  IN IF key \in DOMAIN ufs
     THEN Result(ufs[key], NoError, TRUE)
     ELSE Result(<<>>, DAB_UFError(uf), FALSE)

---------------------------------------------------------------------------
(* The lookup tables, item by item as the source writes them.              *)

mapping_items ==
  <<
    <<<<66,82>>, 100>>,  \* line 101: 'BR'
    <<<<65,67>>, 12>>,  \* line 103: 'AC'
    <<<<65,77>>, 13>>,  \* line 104: 'AM'
    <<<<65,80>>, 16>>,  \* line 105: 'AP'
    <<<<80,65>>, 15>>,  \* line 106: 'PA'
    <<<<82,79>>, 11>>,  \* line 107: 'RO'
    <<<<82,82>>, 14>>,  \* line 108: 'RR'
    <<<<84,79>>, 17>>,  \* line 109: 'TO'
    <<<<65,76>>, 27>>,  \* line 111: 'AL'
    <<<<66,65>>, 29>>,  \* line 112: 'BA'
    <<<<67,69>>, 23>>,  \* line 113: 'CE'
    <<<<77,65>>, 21>>,  \* line 114: 'MA'
    <<<<80,66>>, 25>>,  \* line 115: 'PB'
    <<<<80,69>>, 26>>,  \* line 116: 'PE'
    <<<<80,73>>, 22>>,  \* line 117: 'PI'
    <<<<82,78>>, 24>>,  \* line 118: 'RN'
    <<<<83,69>>, 28>>,  \* line 119: 'SE'
    <<<<69,83>>, 32>>,  \* line 121: 'ES'
    <<<<77,71>>, 31>>,  \* line 122: 'MG'
    <<<<82,74>>, 33>>,  \* line 123: 'RJ'
    <<<<83,80>>, 35>>,  \* line 124: 'SP'
    <<<<80,82>>, 41>>,  \* line 126: 'PR'
    <<<<82,83>>, 43>>,  \* line 127: 'RS'
    <<<<83,67>>, 42>>,  \* line 128: 'SC'
    <<<<68,70>>, 53>>,  \* line 130: 'DF'
    <<<<71,79>>, 52>>,  \* line 131: 'GO'
    <<<<77,84>>, 51>>,  \* line 132: 'MT'
    <<<<77,83>>, 50>>  \* line 133: 'MS'
  >>

bandeira_items ==
  <<
    \* line 234: 'BR': 0/05/Flag_of_Brazil.svg/{tamanho}px-Flag_of_Brazil.svg.png
    <<<<66,82>>, <<<<48,47,48,53,47,70,108,97,103,95,111,102,95,66,114,97,122,105,108,46,115,118,103,47>>, TAMANHO, <<112,120,45,70,108,97,103,95,111,102,95,66,114,97,122,105,108,46,115,118,103,46,112,110,103>>>>>>,
    \* line 235: 'AC': 4/4c/Bandeira_do_Acre.svg/{tamanho}px-Bandeira_do_Acre.svg.png
    <<<<65,67>>, <<<<52,47,52,99,47,66,97,110,100,101,105,114,97,95,100,111,95,65,99,114,101,46,115,118,103,47>>, TAMANHO, <<112,120,45,66,97,110,100,101,105,114,97,95,100,111,95,65,99,114,101,46,115,118,103,46,112,110,103>>>>>>,
    \* line 236: 'AM': 6/6b/Bandeira_do_Amazonas.svg/{tamanho}px-Bandeira_do_Amazonas.svg.png
    <<<<65,77>>, <<<<54,47,54,98,47,66,97,110,100,101,105,114,97,95,100,111,95,65,109,97,122,111,110,97,115,46,115,118,103,47>>, TAMANHO, <<112,120,45,66,97,110,100,101,105,114,97,95,100,111,95,65,109,97,122,111,110,97,115,46,115,118,103,46,112,110,103>>>>>>,
    \* line 237: 'AL': 8/88/Bandeira_de_Alagoas.svg/{tamanho}px-Bandeira_de_Alagoas.svg.png
    <<<<65,76>>, <<<<56,47,56,56,47,66,97,110,100,101,105,114,97,95,100,101,95,65,108,97,103,111,97,115,46,115,118,103,47>>, TAMANHO, <<112,120,45,66,97,110,100,101,105,114,97,95,100,101,95,65,108,97,103,111,97,115,46,115,118,103,46,112,110,103>>>>>>,
    \* line 238: 'AP': 0/0c/Bandeira_do_Amap%C3%A1.svg/{tamanho}px-Bandeira_do_Amap%C3%A1.svg.png
    <<<<65,80>>, <<<<48,47,48,99,47,66,97,110,100,101,105,114,97,95,100,111,95,65,109,97,112,37,67,51,37,65,49,46,115,118,103,47>>, TAMANHO, <<112,120,45,66,97,110,100,101,105,114,97,95,100,111,95,65,109,97,112,37,67,51,37,65,49,46,115,118,103,46,112,110,103>>>>>>,
    \* line 239: 'BA': 2/28/Bandeira_da_Bahia.svg/{tamanho}px-Bandeira_da_Bahia.svg.png
    <<<<66,65>>, <<<<50,47,50,56,47,66,97,110,100,101,105,114,97,95,100,97,95,66,97,104,105,97,46,115,118,103,47>>, TAMANHO, <<112,120,45,66,97,110,100,101,105,114,97,95,100,97,95,66,97,104,105,97,46,115,118,103,46,112,110,103>>>>>>,
    \* line 240: 'CE': 2/2e/Bandeira_do_Cear%C3%A1.svg/{tamanho}px-Bandeira_do_Cear%C3%A1.svg.png
    <<<<67,69>>, <<<<50,47,50,101,47,66,97,110,100,101,105,114,97,95,100,111,95,67,101,97,114,37,67,51,37,65,49,46,115,118,103,47>>, TAMANHO, <<112,120,45,66,97,110,100,101,105,114,97,95,100,111,95,67,101,97,114,37,67,51,37,65,49,46,115,118,103,46,112,110,103>>>>>>,
    \* line 241: 'DF': 3/3c/Bandeira_do_Distrito_Federal_%28Brasil%29.svg/{tamanho}px-Bandeira_do_Distrito_Federal_%28Brasil%29.svg.png
    <<<<68,70>>, <<<<51,47,51,99,47,66,97,110,100,101,105,114,97,95,100,111,95,68,105,115,116,114,105,116,111,95,70,101,100,101,114,97,108,95,37,50,56,66,114,97,115,105,108,37,50,57,46,115,118,103,47>>, TAMANHO, <<112,120,45,66,97,110,100,101,105,114,97,95,100,111,95,68,105,115,116,114,105,116,111,95,70,101,100,101,114,97,108,95,37,50,56,66,114,97,115,105,108,37,50,57,46,115,118,103,46,112,110,103>>>>>>,
    \* line 242: 'ES': 4/43/Bandeira_do_Esp%C3%ADrito_Santo.svg/{tamanho}px-Bandeira_do_Esp%C3%ADrito_Santo.svg.png
    <<<<69,83>>, <<<<52,47,52,51,47,66,97,110,100,101,105,114,97,95,100,111,95,69,115,112,37,67,51,37,65,68,114,105,116,111,95,83,97,110,116,111,46,115,118,103,47>>, TAMANHO, <<112,120,45,66,97,110,100,101,105,114,97,95,100,111,95,69,115,112,37,67,51,37,65,68,114,105,116,111,95,83,97,110,116,111,46,115,118,103,46,112,110,103>>>>>>,
    \* line 243: 'GO': b/be/Flag_of_Goi%C3%A1s.svg/{tamanho}px-Flag_of_Goi%C3%A1s.svg.png
    <<<<71,79>>, <<<<98,47,98,101,47,70,108,97,103,95,111,102,95,71,111,105,37,67,51,37,65,49,115,46,115,118,103,47>>, TAMANHO, <<112,120,45,70,108,97,103,95,111,102,95,71,111,105,37,67,51,37,65,49,115,46,115,118,103,46,112,110,103>>>>>>,
    \* line 244: 'MA': 4/45/Bandeira_do_Maranh%C3%A3o.svg/{tamanho}px-Bandeira_do_Maranh%C3%A3o.svg.png
    <<<<77,65>>, <<<<52,47,52,53,47,66,97,110,100,101,105,114,97,95,100,111,95,77,97,114,97,110,104,37,67,51,37,65,51,111,46,115,118,103,47>>, TAMANHO, <<112,120,45,66,97,110,100,101,105,114,97,95,100,111,95,77,97,114,97,110,104,37,67,51,37,65,51,111,46,115,118,103,46,112,110,103>>>>>>,
    \* line 245: 'MG': f/f4/Bandeira_de_Minas_Gerais.svg/{tamanho}px-Bandeira_de_Minas_Gerais.svg.png
    <<<<77,71>>, <<<<102,47,102,52,47,66,97,110,100,101,105,114,97,95,100,101,95,77,105,110,97,115,95,71,101,114,97,105,115,46,115,118,103,47>>, TAMANHO, <<112,120,45,66,97,110,100,101,105,114,97,95,100,101,95,77,105,110,97,115,95,71,101,114,97,105,115,46,115,118,103,46,112,110,103>>>>>>,
    \* line 246: 'MT': 0/0b/Bandeira_de_Mato_Grosso.svg/{tamanho}px-Bandeira_de_Mato_Grosso.svg.png
    <<<<77,84>>, <<<<48,47,48,98,47,66,97,110,100,101,105,114,97,95,100,101,95,77,97,116,111,95,71,114,111,115,115,111,46,115,118,103,47>>, TAMANHO, <<112,120,45,66,97,110,100,101,105,114,97,95,100,101,95,77,97,116,111,95,71,114,111,115,115,111,46,115,118,103,46,112,110,103>>>>>>,
    \* line 247: 'MS': 6/64/Bandeira_de_Mato_Grosso_do_Sul.svg/{tamanho}px-Bandeira_de_Mato_Grosso_do_Sul.svg.png
    <<<<77,83>>, <<<<54,47,54,52,47,66,97,110,100,101,105,114,97,95,100,101,95,77,97,116,111,95,71,114,111,115,115,111,95,100,111,95,83,117,108,46,115,118,103,47>>, TAMANHO, <<112,120,45,66,97,110,100,101,105,114,97,95,100,101,95,77,97,116,111,95,71,114,111,115,115,111,95,100,111,95,83,117,108,46,115,118,103,46,112,110,103>>>>>>,
    \* line 248: 'PA': 0/02/Bandeira_do_Par%C3%A1.svg/{tamanho}px-Bandeira_do_Par%C3%A1.svg.png
    <<<<80,65>>, <<<<48,47,48,50,47,66,97,110,100,101,105,114,97,95,100,111,95,80,97,114,37,67,51,37,65,49,46,115,118,103,47>>, TAMANHO, <<112,120,45,66,97,110,100,101,105,114,97,95,100,111,95,80,97,114,37,67,51,37,65,49,46,115,118,103,46,112,110,103>>>>>>,
    \* line 249: 'PB': b/bb/Bandeira_da_Para%C3%ADba.svg/{tamanho}px-Bandeira_da_Para%C3%ADba.svg.png
    <<<<80,66>>, <<<<98,47,98,98,47,66,97,110,100,101,105,114,97,95,100,97,95,80,97,114,97,37,67,51,37,65,68,98,97,46,115,118,103,47>>, TAMANHO, <<112,120,45,66,97,110,100,101,105,114,97,95,100,97,95,80,97,114,97,37,67,51,37,65,68,98,97,46,115,118,103,46,112,110,103>>>>>>,
    \* line 250: 'PE': 5/59/Bandeira_de_Pernambuco.svg/{tamanho}px-Bandeira_de_Pernambuco.svg.png
    <<<<80,69>>, <<<<53,47,53,57,47,66,97,110,100,101,105,114,97,95,100,101,95,80,101,114,110,97,109,98,117,99,111,46,115,118,103,47>>, TAMANHO, <<112,120,45,66,97,110,100,101,105,114,97,95,100,101,95,80,101,114,110,97,109,98,117,99,111,46,115,118,103,46,112,110,103>>>>>>,
    \* line 251: 'PI': 3/33/Bandeira_do_Piau%C3%AD.svg/{tamanho}px-Bandeira_do_Piau%C3%AD.svg.png
    <<<<80,73>>, <<<<51,47,51,51,47,66,97,110,100,101,105,114,97,95,100,111,95,80,105,97,117,37,67,51,37,65,68,46,115,118,103,47>>, TAMANHO, <<112,120,45,66,97,110,100,101,105,114,97,95,100,111,95,80,105,97,117,37,67,51,37,65,68,46,115,118,103,46,112,110,103>>>>>>,
    \* line 252: 'PR': 9/93/Bandeira_do_Paran%C3%A1.svg/{tamanho}px-Bandeira_do_Paran%C3%A1.svg.png
    <<<<80,82>>, <<<<57,47,57,51,47,66,97,110,100,101,105,114,97,95,100,111,95,80,97,114,97,110,37,67,51,37,65,49,46,115,118,103,47>>, TAMANHO, <<112,120,45,66,97,110,100,101,105,114,97,95,100,111,95,80,97,114,97,110,37,67,51,37,65,49,46,115,118,103,46,112,110,103>>>>>>,
    \* line 253: 'RJ': 7/73/Bandeira_do_estado_do_Rio_de_Janeiro.svg/{tamanho}px-Bandeira_do_estado_do_Rio_de_Janeiro.svg.png
    <<<<82,74>>, <<<<55,47,55,51,47,66,97,110,100,101,105,114,97,95,100,111,95,101,115,116,97,100,111,95,100,111,95,82,105,111,95,100,101,95,74,97,110,101,105,114,111,46,115,118,103,47>>, TAMANHO, <<112,120,45,66,97,110,100,101,105,114,97,95,100,111,95,101,115,116,97,100,111,95,100,111,95,82,105,111,95,100,101,95,74,97,110,101,105,114,111,46,115,118,103,46,112,110,103>>>>>>,
    \* line 254: 'RO': f/fa/Bandeira_de_Rond%C3%B4nia.svg/{tamanho}px-Bandeira_de_Rond%C3%B4nia.svg.png
    <<<<82,79>>, <<<<102,47,102,97,47,66,97,110,100,101,105,114,97,95,100,101,95,82,111,110,100,37,67,51,37,66,52,110,105,97,46,115,118,103,47>>, TAMANHO, <<112,120,45,66,97,110,100,101,105,114,97,95,100,101,95,82,111,110,100,37,67,51,37,66,52,110,105,97,46,115,118,103,46,112,110,103>>>>>>,
    \* line 255: 'RN': 3/30/Bandeira_do_Rio_Grande_do_Norte.svg/{tamanho}px-Bandeira_do_Rio_Grande_do_Norte.svg.png
    <<<<82,78>>, <<<<51,47,51,48,47,66,97,110,100,101,105,114,97,95,100,111,95,82,105,111,95,71,114,97,110,100,101,95,100,111,95,78,111,114,116,101,46,115,118,103,47>>, TAMANHO, <<112,120,45,66,97,110,100,101,105,114,97,95,100,111,95,82,105,111,95,71,114,97,110,100,101,95,100,111,95,78,111,114,116,101,46,115,118,103,46,112,110,103>>>>>>,
    \* line 256: 'RR': 9/98/Bandeira_de_Roraima.svg/{tamanho}px-Bandeira_de_Roraima.svg.png
    <<<<82,82>>, <<<<57,47,57,56,47,66,97,110,100,101,105,114,97,95,100,101,95,82,111,114,97,105,109,97,46,115,118,103,47>>, TAMANHO, <<112,120,45,66,97,110,100,101,105,114,97,95,100,101,95,82,111,114,97,105,109,97,46,115,118,103,46,112,110,103>>>>>>,
    \* line 257: 'RS': 6/63/Bandeira_do_Rio_Grande_do_Sul.svg/{tamanho}px-Bandeira_do_Rio_Grande_do_Sul.svg.png
    <<<<82,83>>, <<<<54,47,54,51,47,66,97,110,100,101,105,114,97,95,100,111,95,82,105,111,95,71,114,97,110,100,101,95,100,111,95,83,117,108,46,115,118,103,47>>, TAMANHO, <<112,120,45,66,97,110,100,101,105,114,97,95,100,111,95,82,105,111,95,71,114,97,110,100,101,95,100,111,95,83,117,108,46,115,118,103,46,112,110,103>>>>>>,
    \* line 258: 'SC': 1/1a/Bandeira_de_Santa_Catarina.svg/{tamanho}px-Bandeira_de_Santa_Catarina.svg.png
    <<<<83,67>>, <<<<49,47,49,97,47,66,97,110,100,101,105,114,97,95,100,101,95,83,97,110,116,97,95,67,97,116,97,114,105,110,97,46,115,118,103,47>>, TAMANHO, <<112,120,45,66,97,110,100,101,105,114,97,95,100,101,95,83,97,110,116,97,95,67,97,116,97,114,105,110,97,46,115,118,103,46,112,110,103>>>>>>,
    \* line 259: 'SE': b/be/Bandeira_de_Sergipe.svg/{tamanho}px-Bandeira_de_Sergipe.svg.png
    <<<<83,69>>, <<<<98,47,98,101,47,66,97,110,100,101,105,114,97,95,100,101,95,83,101,114,103,105,112,101,46,115,118,103,47>>, TAMANHO, <<112,120,45,66,97,110,100,101,105,114,97,95,100,101,95,83,101,114,103,105,112,101,46,115,118,103,46,112,110,103>>>>>>,
    \* line 260: 'SP': 2/2b/Bandeira_do_estado_de_S%C3%A3o_Paulo.svg/{tamanho}px-Bandeira_do_estado_de_S%C3%A3o_Paulo.svg.png
    <<<<83,80>>, <<<<50,47,50,98,47,66,97,110,100,101,105,114,97,95,100,111,95,101,115,116,97,100,111,95,100,101,95,83,37,67,51,37,65,51,111,95,80,97,117,108,111,46,115,118,103,47>>, TAMANHO, <<112,120,45,66,97,110,100,101,105,114,97,95,100,111,95,101,115,116,97,100,111,95,100,101,95,83,37,67,51,37,65,51,111,95,80,97,117,108,111,46,115,118,103,46,112,110,103>>>>>>,
    \* line 261: 'TO': f/ff/Bandeira_do_Tocantins.svg/{tamanho}px-Bandeira_do_Tocantins.svg.png
    <<<<84,79>>, <<<<102,47,102,102,47,66,97,110,100,101,105,114,97,95,100,111,95,84,111,99,97,110,116,105,110,115,46,115,118,103,47>>, TAMANHO, <<112,120,45,66,97,110,100,101,105,114,97,95,100,111,95,84,111,99,97,110,116,105,110,115,46,115,118,103,46,112,110,103>>>>>>,
    \* line 264: 'FN': 3/3b/Fernando_de_Noronha%2C_PE_-_Bandeira.svg/{tamanho}px-Fernando_de_Noronha%2C_PE_-_Bandeira.svg.png
    <<<<70,78>>, <<<<51,47,51,98,47,70,101,114,110,97,110,100,111,95,100,101,95,78,111,114,111,110,104,97,37,50,67,95,80,69,95,45,95,66,97,110,100,101,105,114,97,46,115,118,103,47>>, TAMANHO, <<112,120,45,70,101,114,110,97,110,100,111,95,100,101,95,78,111,114,111,110,104,97,37,50,67,95,80,69,95,45,95,66,97,110,100,101,105,114,97,46,115,118,103,46,112,110,103>>>>>>,
    \* line 265: 'GB': c/c3/Bandeira_do_Estado_da_Guanabara_%281960%E2%80%931975%29.png/{tamanho}px-Bandeira_do_Estado_da_Guanabara_%281960%E2%80%931975%29.png
    <<<<71,66>>, <<<<99,47,99,51,47,66,97,110,100,101,105,114,97,95,100,111,95,69,115,116,97,100,111,95,100,97,95,71,117,97,110,97,98,97,114,97,95,37,50,56,49,57,54,48,37,69,50,37,56,48,37,57,51,49,57,55,53,37,50,57,46,112,110,103,47>>, TAMANHO, <<112,120,45,66,97,110,100,101,105,114,97,95,100,111,95,69,115,116,97,100,111,95,100,97,95,71,117,97,110,97,98,97,114,97,95,37,50,56,49,57,54,48,37,69,50,37,56,48,37,57,51,49,57,55,53,37,50,57,46,112,110,103>>>>>>
  >>

brasao_items ==
  <<
    \* line 305: 'BR': b/bf/Coat_of_arms_of_Brazil.svg/{tamanho}px-Coat_of_arms_of_Brazil.svg.png
    <<<<66,82>>, <<<<98,47,98,102,47,67,111,97,116,95,111,102,95,97,114,109,115,95,111,102,95,66,114,97,122,105,108,46,115,118,103,47>>, TAMANHO, <<112,120,45,67,111,97,116,95,111,102,95,97,114,109,115,95,111,102,95,66,114,97,122,105,108,46,115,118,103,46,112,110,103>>>>>>,
    \* line 306: 'AC': 5/52/Bras\xe3o_do_Acre.svg/{tamanho}px-Bras\xe3o_do_Acre.svg.png
    <<<<65,67>>, <<<<53,47,53,50,47,66,114,97,115,227,111,95,100,111,95,65,99,114,101,46,115,118,103,47>>, TAMANHO, <<112,120,45,66,114,97,115,227,111,95,100,111,95,65,99,114,101,46,115,118,103,46,112,110,103>>>>>>,
    \* line 307: 'AM': 2/2c/Bras%C3%A3o_do_Amazonas.svg/{tamanho}px-Bras%C3%A3o_do_Amazonas.svg.png
    <<<<65,77>>, <<<<50,47,50,99,47,66,114,97,115,37,67,51,37,65,51,111,95,100,111,95,65,109,97,122,111,110,97,115,46,115,118,103,47>>, TAMANHO, <<112,120,45,66,114,97,115,37,67,51,37,65,51,111,95,100,111,95,65,109,97,122,111,110,97,115,46,115,118,103,46,112,110,103>>>>>>,
    \* line 308: 'AL': 5/5c/Bras%C3%A3o_do_Estado_de_Alagoas.svg/{tamanho}px-Bras%C3%A3o_do_Estado_de_Alagoas.svg.png
    <<<<65,76>>, <<<<53,47,53,99,47,66,114,97,115,37,67,51,37,65,51,111,95,100,111,95,69,115,116,97,100,111,95,100,101,95,65,108,97,103,111,97,115,46,115,118,103,47>>, TAMANHO, <<112,120,45,66,114,97,115,37,67,51,37,65,51,111,95,100,111,95,69,115,116,97,100,111,95,100,101,95,65,108,97,103,111,97,115,46,115,118,103,46,112,110,103>>>>>>,
    \* line 309: 'AP': 6/63/Bras%C3%A3o_do_Amap%C3%A1.svg/{tamanho}px-Bras%C3%A3o_do_Amap%C3%A1.svg.png
    <<<<65,80>>, <<<<54,47,54,51,47,66,114,97,115,37,67,51,37,65,51,111,95,100,111,95,65,109,97,112,37,67,51,37,65,49,46,115,118,103,47>>, TAMANHO, <<112,120,45,66,114,97,115,37,67,51,37,65,51,111,95,100,111,95,65,109,97,112,37,67,51,37,65,49,46,115,118,103,46,112,110,103>>>>>>,
    \* line 310: 'BA': 1/12/Bras%C3%A3o_do_estado_da_Bahia.svg/{tamanho}px-Bras%C3%A3o_do_estado_da_Bahia.svg.png
    <<<<66,65>>, <<<<49,47,49,50,47,66,114,97,115,37,67,51,37,65,51,111,95,100,111,95,101,115,116,97,100,111,95,100,97,95,66,97,104,105,97,46,115,118,103,47>>, TAMANHO, <<112,120,45,66,114,97,115,37,67,51,37,65,51,111,95,100,111,95,101,115,116,97,100,111,95,100,97,95,66,97,104,105,97,46,115,118,103,46,112,110,103>>>>>>,
    \* line 311: 'CE': f/fe/Bras%C3%A3o_do_Cear%C3%A1.svg/{tamanho}px-Bras%C3%A3o_do_Cear%C3%A1.svg.png
    <<<<67,69>>, <<<<102,47,102,101,47,66,114,97,115,37,67,51,37,65,51,111,95,100,111,95,67,101,97,114,37,67,51,37,65,49,46,115,118,103,47>>, TAMANHO, <<112,120,45,66,114,97,115,37,67,51,37,65,51,111,95,100,111,95,67,101,97,114,37,67,51,37,65,49,46,115,118,103,46,112,110,103>>>>>>,
    \* line 312: 'DF': e/e0/Bras%C3%A3o_do_Distrito_Federal_%28Brasil%29.svg/{tamanho}px-Bras%C3%A3o_do_Distrito_Federal_%28Brasil%29.svg.png
    <<<<68,70>>, <<<<101,47,101,48,47,66,114,97,115,37,67,51,37,65,51,111,95,100,111,95,68,105,115,116,114,105,116,111,95,70,101,100,101,114,97,108,95,37,50,56,66,114,97,115,105,108,37,50,57,46,115,118,103,47>>, TAMANHO, <<112,120,45,66,114,97,115,37,67,51,37,65,51,111,95,100,111,95,68,105,115,116,114,105,116,111,95,70,101,100,101,114,97,108,95,37,50,56,66,114,97,115,105,108,37,50,57,46,115,118,103,46,112,110,103>>>>>>,
    \* line 313: 'ES': a/a0/Bras%C3%A3o_do_Esp%C3%ADrito_Santo.svg/{tamanho}px-Bras%C3%A3o_do_Esp%C3%ADrito_Santo.svg.png
    <<<<69,83>>, <<<<97,47,97,48,47,66,114,97,115,37,67,51,37,65,51,111,95,100,111,95,69,115,112,37,67,51,37,65,68,114,105,116,111,95,83,97,110,116,111,46,115,118,103,47>>, TAMANHO, <<112,120,45,66,114,97,115,37,67,51,37,65,51,111,95,100,111,95,69,115,112,37,67,51,37,65,68,114,105,116,111,95,83,97,110,116,111,46,115,118,103,46,112,110,103>>>>>>,
    \* line 314: 'GO': b/bf/Bras%C3%A3o_de_Goi%C3%A1s.svg/{tamanho}px-Bras%C3%A3o_de_Goi%C3%A1s.svg.png
    <<<<71,79>>, <<<<98,47,98,102,47,66,114,97,115,37,67,51,37,65,51,111,95,100,101,95,71,111,105,37,67,51,37,65,49,115,46,115,118,103,47>>, TAMANHO, <<112,120,45,66,114,97,115,37,67,51,37,65,51,111,95,100,101,95,71,111,105,37,67,51,37,65,49,115,46,115,118,103,46,112,110,103>>>>>>,
    \* line 315: 'MA': a/ab/Bras\xe3o_do_Maranh\xe3o.svg/{tamanho}px-Bras\xe3o_do_Maranh\xe3o.svg.png
    <<<<77,65>>, <<<<97,47,97,98,47,66,114,97,115,227,111,95,100,111,95,77,97,114,97,110,104,227,111,46,115,118,103,47>>, TAMANHO, <<112,120,45,66,114,97,115,227,111,95,100,111,95,77,97,114,97,110,104,227,111,46,115,118,103,46,112,110,103>>>>>>,
    \* line 316: 'MG': d/d2/Bras\xe3o_de_Minas_Gerais.svg/{tamanho}px-Bras\xe3o_de_Minas_Gerais.svg.png
    <<<<77,71>>, <<<<100,47,100,50,47,66,114,97,115,227,111,95,100,101,95,77,105,110,97,115,95,71,101,114,97,105,115,46,115,118,103,47>>, TAMANHO, <<112,120,45,66,114,97,115,227,111,95,100,101,95,77,105,110,97,115,95,71,101,114,97,105,115,46,115,118,103,46,112,110,103>>>>>>,
    \* line 317: 'MT': 0/04/Bras\xe3o_de_Mato_Grosso.png/{tamanho}px-Bras\xe3o_de_Mato_Grosso.png
    <<<<77,84>>, <<<<48,47,48,52,47,66,114,97,115,227,111,95,100,101,95,77,97,116,111,95,71,114,111,115,115,111,46,112,110,103,47>>, TAMANHO, <<112,120,45,66,114,97,115,227,111,95,100,101,95,77,97,116,111,95,71,114,111,115,115,111,46,112,110,103>>>>>>,
    \* line 318: 'MS': f/fa/Bras\xe3o_de_Mato_Grosso_do_Sul.svg/{tamanho}px-Bras\xe3o_de_Mato_Grosso_do_Sul.svg.png
    <<<<77,83>>, <<<<102,47,102,97,47,66,114,97,115,227,111,95,100,101,95,77,97,116,111,95,71,114,111,115,115,111,95,100,111,95,83,117,108,46,115,118,103,47>>, TAMANHO, <<112,120,45,66,114,97,115,227,111,95,100,101,95,77,97,116,111,95,71,114,111,115,115,111,95,100,111,95,83,117,108,46,115,118,103,46,112,110,103>>>>>>,
    \* line 319: 'PA': b/bc/Bras\xe3o_do_Par\xe1.svg/{tamanho}px-Bras\xe3o_do_Par\xe1.svg.png
    <<<<80,65>>, <<<<98,47,98,99,47,66,114,97,115,227,111,95,100,111,95,80,97,114,225,46,115,118,103,47>>, TAMANHO, <<112,120,45,66,114,97,115,227,111,95,100,111,95,80,97,114,225,46,115,118,103,46,112,110,103>>>>>>,
    \* line 320: 'PB': f/fd/Bras\xe3o_da_Para\xedba.svg/{tamanho}px-Bras\xe3o_da_Para\xedba.svg.png
    <<<<80,66>>, <<<<102,47,102,100,47,66,114,97,115,227,111,95,100,97,95,80,97,114,97,237,98,97,46,115,118,103,47>>, TAMANHO, <<112,120,45,66,114,97,115,227,111,95,100,97,95,80,97,114,97,237,98,97,46,115,118,103,46,112,110,103>>>>>>,
    \* line 321: 'PE': 0/04/Bras\xe3o_do_estado_de_Pernambuco.svg/{tamanho}px-Bras\xe3o_do_estado_de_Pernambuco.svg.png
    <<<<80,69>>, <<<<48,47,48,52,47,66,114,97,115,227,111,95,100,111,95,101,115,116,97,100,111,95,100,101,95,80,101,114,110,97,109,98,117,99,111,46,115,118,103,47>>, TAMANHO, <<112,120,45,66,114,97,115,227,111,95,100,111,95,101,115,116,97,100,111,95,100,101,95,80,101,114,110,97,109,98,117,99,111,46,115,118,103,46,112,110,103>>>>>>,
    \* line 322: 'PI': a/ad/Bras\xe3o_do_Piau\xed.svg/{tamanho}px-Bras\xe3o_do_Piau\xed.svg.png
    <<<<80,73>>, <<<<97,47,97,100,47,66,114,97,115,227,111,95,100,111,95,80,105,97,117,237,46,115,118,103,47>>, TAMANHO, <<112,120,45,66,114,97,115,227,111,95,100,111,95,80,105,97,117,237,46,115,118,103,46,112,110,103>>>>>>,
    \* line 323: 'PR': 4/49/Bras\xe3o_do_Paran\xe1.svg/{tamanho}px-Bras\xe3o_do_Paran\xe1.svg.png
    <<<<80,82>>, <<<<52,47,52,57,47,66,114,97,115,227,111,95,100,111,95,80,97,114,97,110,225,46,115,118,103,47>>, TAMANHO, <<112,120,45,66,114,97,115,227,111,95,100,111,95,80,97,114,97,110,225,46,115,118,103,46,112,110,103>>>>>>,
    \* line 324: 'RJ': 5/5b/Bras\xe3o_do_estado_do_Rio_de_Janeiro.svg/{tamanho}px-Bras\xe3o_do_estado_do_Rio_de_Janeiro.svg.png
    <<<<82,74>>, <<<<53,47,53,98,47,66,114,97,115,227,111,95,100,111,95,101,115,116,97,100,111,95,100,111,95,82,105,111,95,100,101,95,74,97,110,101,105,114,111,46,115,118,103,47>>, TAMANHO, <<112,120,45,66,114,97,115,227,111,95,100,111,95,101,115,116,97,100,111,95,100,111,95,82,105,111,95,100,101,95,74,97,110,101,105,114,111,46,115,118,103,46,112,110,103>>>>>>,
    \* line 325: 'RO': f/f1/Bras\xe3o_de_Rond\xf4nia.svg/{tamanho}px-Bras\xe3o_de_Rond\xf4nia.svg.png
    <<<<82,79>>, <<<<102,47,102,49,47,66,114,97,115,227,111,95,100,101,95,82,111,110,100,244,110,105,97,46,115,118,103,47>>, TAMANHO, <<112,120,45,66,114,97,115,227,111,95,100,101,95,82,111,110,100,244,110,105,97,46,115,118,103,46,112,110,103>>>>>>,
    \* line 326: 'RN': 2/26/Bras\xe3o_do_Rio_Grande_do_Norte.svg/{tamanho}px-Bras\xe3o_do_Rio_Grande_do_Norte.svg.png
    <<<<82,78>>, <<<<50,47,50,54,47,66,114,97,115,227,111,95,100,111,95,82,105,111,95,71,114,97,110,100,101,95,100,111,95,78,111,114,116,101,46,115,118,103,47>>, TAMANHO, <<112,120,45,66,114,97,115,227,111,95,100,111,95,82,105,111,95,71,114,97,110,100,101,95,100,111,95,78,111,114,116,101,46,115,118,103,46,112,110,103>>>>>>,
    \* line 327: 'RR': e/ed/Bras\xe3o_de_Roraima.svg/{tamanho}px-Bras\xe3o_de_Roraima.svg.png
    <<<<82,82>>, <<<<101,47,101,100,47,66,114,97,115,227,111,95,100,101,95,82,111,114,97,105,109,97,46,115,118,103,47>>, TAMANHO, <<112,120,45,66,114,97,115,227,111,95,100,101,95,82,111,114,97,105,109,97,46,115,118,103,46,112,110,103>>>>>>,
    \* line 328: 'RS': 3/38/Bras\xe3o_do_Rio_Grande_do_Sul.svg/{tamanho}px-Bras\xe3o_do_Rio_Grande_do_Sul.svg.png
    <<<<82,83>>, <<<<51,47,51,56,47,66,114,97,115,227,111,95,100,111,95,82,105,111,95,71,114,97,110,100,101,95,100,111,95,83,117,108,46,115,118,103,47>>, TAMANHO, <<112,120,45,66,114,97,115,227,111,95,100,111,95,82,105,111,95,71,114,97,110,100,101,95,100,111,95,83,117,108,46,115,118,103,46,112,110,103>>>>>>,
    \* line 329: 'SC': 6/65/Bras\xe3o_de_Santa_Catarina.svg/{tamanho}px-Bras\xe3o_de_Santa_Catarina.svg.png
    <<<<83,67>>, <<<<54,47,54,53,47,66,114,97,115,227,111,95,100,101,95,83,97,110,116,97,95,67,97,116,97,114,105,110,97,46,115,118,103,47>>, TAMANHO, <<112,120,45,66,114,97,115,227,111,95,100,101,95,83,97,110,116,97,95,67,97,116,97,114,105,110,97,46,115,118,103,46,112,110,103>>>>>>,
    \* line 330: 'SE': 5/52/Bras\xe3o_de_Sergipe.svg/{tamanho}px-Bras\xe3o_de_Sergipe.svg.png
    <<<<83,69>>, <<<<53,47,53,50,47,66,114,97,115,227,111,95,100,101,95,83,101,114,103,105,112,101,46,115,118,103,47>>, TAMANHO, <<112,120,45,66,114,97,115,227,111,95,100,101,95,83,101,114,103,105,112,101,46,115,118,103,46,112,110,103>>>>>>,
    \* line 331: 'SP': 1/1a/Bras\xe3o_do_estado_de_S\xe3o_Paulo.svg/{tamanho}px-Bras\xe3o_do_estado_de_S\xe3o_Paulo.svg.png
    <<<<83,80>>, <<<<49,47,49,97,47,66,114,97,115,227,111,95,100,111,95,101,115,116,97,100,111,95,100,101,95,83,227,111,95,80,97,117,108,111,46,115,118,103,47>>, TAMANHO, <<112,120,45,66,114,97,115,227,111,95,100,111,95,101,115,116,97,100,111,95,100,101,95,83,227,111,95,80,97,117,108,111,46,115,118,103,46,112,110,103>>>>>>,
    \* line 332: 'TO': c/cc/Bras\xe3o_do_Tocantins.svg/{tamanho}px-Bras\xe3o_do_Tocantins.svg.png
    <<<<84,79>>, <<<<99,47,99,99,47,66,114,97,115,227,111,95,100,111,95,84,111,99,97,110,116,105,110,115,46,115,118,103,47>>, TAMANHO, <<112,120,45,66,114,97,115,227,111,95,100,111,95,84,111,99,97,110,116,105,110,115,46,115,118,103,46,112,110,103>>>>>>,
    \* line 335: 'FN': 5/5a/Fernando_de_Noronha%2C_PE_-_Bras%C3%A3o.svg/{tamanho}px-Fernando_de_Noronha%2C_PE_-_Bras%C3%A3o.svg.png
    <<<<70,78>>, <<<<53,47,53,97,47,70,101,114,110,97,110,100,111,95,100,101,95,78,111,114,111,110,104,97,37,50,67,95,80,69,95,45,95,66,114,97,115,37,67,51,37,65,51,111,46,115,118,103,47>>, TAMANHO, <<112,120,45,70,101,114,110,97,110,100,111,95,100,101,95,78,111,114,111,110,104,97,37,50,67,95,80,69,95,45,95,66,114,97,115,37,67,51,37,65,51,111,46,115,118,103,46,112,110,103>>>>>>,
    \* line 336: 'GB': c/cf/Bras%C3%A3o_do_Estado_da_Guanabara_%281960%E2%80%931975%29.png/{tamanho}px-Bras%C3%A3o_do_Estado_da_Guanabara_%281960%E2%80%931975%29.png
    <<<<71,66>>, <<<<99,47,99,102,47,66,114,97,115,37,67,51,37,65,51,111,95,100,111,95,69,115,116,97,100,111,95,100,97,95,71,117,97,110,97,98,97,114,97,95,37,50,56,49,57,54,48,37,69,50,37,56,48,37,57,51,49,57,55,53,37,50,57,46,112,110,103,47>>, TAMANHO, <<112,120,45,66,114,97,115,37,67,51,37,65,51,111,95,100,111,95,69,115,116,97,100,111,95,100,97,95,71,117,97,110,97,98,97,114,97,95,37,50,56,49,57,54,48,37,69,50,37,56,48,37,57,51,49,57,55,53,37,50,57,46,112,110,103>>>>>>
  >>
W_mensal == <<109,101,110,115,97,108>>  \* 'mensal'
W_diaria == <<100,105,97,114,105,97>>  \* 'diaria'
W_diario == <<100,105,97,114,105,111>>  \* 'diario'
W_anual == <<97,110,117,97,108>>  \* 'anual'
W_nominal == <<110,111,109,105,110,97,108>>  \* 'nominal'
W_real == <<114,101,97,108>>  \* 'real'
W_ppc == <<112,112,99>>  \* 'ppc'
W_bogus == <<98,111,103,117,115>>  \* 'bogus'
W_diario_ac == <<100,105,225,114,105,111>>  \* 'di\xe1rio'
W_diaria_ac == <<100,105,225,114,105,97>>  \* 'di\xe1ria'
\* line 364: Per\xedodo inv\xe1lido. Escolha um dos seguintes valores: 'mensal' ou 'diaria'.
MSG_periodo == <<80,101,114,237,111,100,111,32,105,110,118,225,108,105,100,111,46,32,69,115,99,111,108,104,97,32,117,109,32,100,111,115,32,115,101,103,117,105,110,116,101,115,32,118,97,108,111,114,101,115,58,32,39,109,101,110,115,97,108,39,32,111,117,32,39,100,105,97,114,105,97,39,46>>
\* line 383: Tipo inv\xe1lido. Escolha um dos seguintes valores: 'nominal', 'real' ou 'ppc'.
\* (variant: 'ppc' is left out of the list)
MSG_tipo_sem_ppc == <<84,105,112,111,32,105,110,118,225,108,105,100,111,46,32,69,115,99,111,108,104,97,32,117,109,32,100,111,115,32,115,101,103,117,105,110,116,101,115,32,118,97,108,111,114,101,115,58,32,39,110,111,109,105,110,97,108,39,32,111,117,32,39,114,101,97,108,39,46>>
MSG_tipo == <<84,105,112,111,32,105,110,118,225,108,105,100,111,46,32,69,115,99,111,108,104,97,32,117,109,32,100,111,115,32,115,101,103,117,105,110,116,101,115,32,118,97,108,111,114,101,115,58,32,39,110,111,109,105,110,97,108,39,44,32,39,114,101,97,108,39,32,111,117,32,39,112,112,99,39,46>>
\* https://upload.wikimedia.org/wikipedia/commons/thumb/
URL_thumb == <<104,116,116,112,115,58,47,47,117,112,108,111,97,100,46,119,105,107,105,109,101,100,105,97,46,111,114,103,47,119,105,107,105,112,101,100,105,97,47,99,111,109,109,111,110,115,47,116,104,117,109,98,47>>
\* https://raw.githubusercontent.com/tbrugz/geodata-br/master/geojson/geojs-{mapping[uf]}-mun.json
geojson_url_pre == <<104,116,116,112,115,58,47,47,114,97,119,46,103,105,116,104,117,98,117,115,101,114,99,111,110,116,101,110,116,46,99,111,109,47,116,98,114,117,103,122,47,103,101,111,100,97,116,97,45,98,114,47,109,97,115,116,101,114,47,103,101,111,106,115,111,110,47,103,101,111,106,115,45>>
geojson_url_post == <<45,109,117,110,46,106,115,111,110>>

\* (variant: the first item, 'BR', is missing)
mapping_sem_BR == dict_literal(Tail(mapping_items))
mapping == dict_literal(mapping_items)

\* The dict displays of bandeira and brasao hold f-strings over tamanho:
\* the keys and the templates are fixed, the values are rendered at each
\* call.
\* (variant: 'SE' is given the fragment of 'GO', its neighbour under b/be/)
bandeira_templates_dup ==
  LET d == dict_literal(bandeira_items)
  IN [k \in DOMAIN d |-> IF k = <<83,69>> THEN d[<<71,79>>] ELSE d[k]]
bandeira_templates == dict_literal(bandeira_items)
brasao_templates == dict_literal(brasao_items)

bandeira_dict(tamanho) ==
  [k \in DOMAIN bandeira_templates |-> fstring(bandeira_templates[k], tamanho)]

brasao_dict(tamanho) ==
  [k \in DOMAIN brasao_templates |-> fstring(brasao_templates[k], tamanho)]

---------------------------------------------------------------------------
(* The collaborators.  Each answers one request with a dataset or fails;   *)
(* which, is the environment's choice.                                     *)

Payloads == 1..MaxPayload

CollabError(t) == [type |-> t, origin |-> "collaborator", message |-> <<>>]

Answer(v) == Result(v, NoError, TRUE)
\* a failed request carries no dataset: 0, or the empty frame
Failure(t) == Result(0, CollabError(t), FALSE)
FrameFailure(t) == Result(Frame(<<>>, 0), CollabError(t), FALSE)

\* pandas.read_csv(URL)
CsvResponses ==
  {Answer(p) : p \in Payloads} \cup {Failure("URLError"), Failure("ParserError")}
\* requests.get(url).json()
JsonResponses ==
  {Answer(p) : p \in Payloads}
    \cup {Failure("ConnectionError"), Failure("JSONDecodeError")}
\* bacen.serie(cod, **kwargs) and ipea.serie(cod, index)
SerieResponses ==
  {Answer(p) : p \in Payloads} \cup {Failure("HTTPError")}

---------------------------------------------------------------------------
(* catalogo, perfil_eleitorado                                             *)

URL_catalogo ==
  "https://raw.githubusercontent.com/dadosgovbr/catalogos-dados-brasil/master/dados/catalogos.csv"
URL_municipios ==
  "https://raw.githubusercontent.com/betafcc/Municipios-Brasileiros-TSE/master/municipios_brasileiros_tse.json"
URL_eleitorado ==
  "https://raw.githubusercontent.com/GusFurtado/DadosAbertosBrasil/master/data/Eleitorado.csv"

\* One request to a collaborator; its answer or its failure is the outcome.
\* (variant: a failed request is made once more)
fetch_retry(op, args, req, resp) ==
  IF resp.ok
  THEN Returned(op, args, resp.value, <<req>>, <<resp>>)
  ELSE Raised(op, args, resp.error, <<req, req>>, <<resp, resp>>)
fetch(op, args, req, resp) ==
  IF resp.ok
  THEN Returned(op, args, resp.value, <<req>>, <<resp>>)
  ELSE Raised(op, args, resp.error, <<req>>, <<resp>>)

catalogo_call(resp) ==
  fetch("catalogo", NoArgs, Request("pandas.read_csv", URL_catalogo, {}), resp)

perfil_eleitorado_call(resp) ==
  fetch("perfil_eleitorado", NoArgs,
        Request("pandas.read_csv", URL_eleitorado,
                {<<"encoding", "latin-1">>, <<"sep", ";">>}),
        resp)

---------------------------------------------------------------------------
(* codigos_municipios                                                      *)

COLUNAS ==
  <<"codigo_tse", "codigo_ibge", "nome_municipio", "uf", "capital">>

\* df[[c1, ..., cn]]: the listed columns in the listed order (each as often
\* as the frame holds it); KeyError if the frame lacks one of them.
\* (variant: the listed columns are kept in the frame's own order)
getitem_columns_upstream_order(df, cols) ==
  IF \A i \in DOMAIN cols : cols[i] \in Range(df.columns)
  THEN Result(Frame(SelectSeq(df.columns, LAMBDA c : c \in Range(cols)),
                    df.data),
              NoError, TRUE)
  ELSE Result(<<>>,
              [type |-> "KeyError", origin |-> "pandas", message |-> <<>>],
              FALSE)
getitem_columns(df, cols) ==
  IF \A i \in DOMAIN cols : cols[i] \in Range(df.columns)
  THEN Result(Frame(Concat([i \in DOMAIN cols |->
                               SelectSeq(df.columns, LAMBDA c : c = cols[i])]),
                    df.data),
              NoError, TRUE)
  ELSE Result(<<>>,
              [type |-> "KeyError", origin |-> "pandas", message |-> <<>>],
              FALSE)

codigos_municipios_call(resp) ==
  LET req == Request("pandas.read_json", URL_municipios, {})
  IN IF ~resp.ok
     THEN Raised("codigos_municipios", NoArgs, resp.error, <<req>>, <<resp>>)
     ELSE LET sel == getitem_columns(resp.value, COLUNAS)
          IN IF sel.ok
             THEN Returned("codigos_municipios", NoArgs, sel.value,
                           <<req>>, <<resp>>)
             ELSE Raised("codigos_municipios", NoArgs, sel.error,
                         <<req>>, <<resp>>)

---------------------------------------------------------------------------
(* geojson, bandeira, brasao                                               *)

\* d[k] on a key the dict does not hold
KeyError(k) == [type |-> "KeyError", origin |-> "favoritos", message |-> k]

\* parse.uf(uf): extintos is left to its default
geojson_extintos == FALSE
\* parse.uf(uf, extintos=True)
\* (variant: extintos is left out)
bandeira_extintos_false == FALSE
bandeira_extintos == TRUE
brasao_extintos == TRUE

geojson_call(uf, resp) ==
  LET args == ArgsUF(uf)
      r == parse_uf(uf, geojson_extintos)
  IN IF ~r.ok THEN Raised("geojson", args, r.error, <<>>, <<>>)
     ELSE IF r.value \notin DOMAIN mapping
     THEN Raised("geojson", args, KeyError(r.value), <<>>, <<>>)
     ELSE fetch("geojson", args,
                Request("requests.get",
                        geojson_url_pre \o str(mapping[r.value])
                          \o geojson_url_post,
                        {}),
                resp)

bandeira_call(uf, tamanho) ==
  LET args == ArgsImagem(uf, tamanho)
      d == bandeira_dict(tamanho)
      r == parse_uf(uf, bandeira_extintos)
  IN IF ~r.ok THEN Raised("bandeira", args, r.error, <<>>, <<>>)
     ELSE IF r.value \notin DOMAIN bandeira_templates
     THEN Raised("bandeira", args, KeyError(r.value), <<>>, <<>>)
     ELSE Returned("bandeira", args, URL_thumb \o d[r.value], <<>>, <<>>)

brasao_call(uf, tamanho) ==
  LET args == ArgsImagem(uf, tamanho)
      d == brasao_dict(tamanho)
      r == parse_uf(uf, brasao_extintos)
  IN IF ~r.ok THEN Raised("brasao", args, r.error, <<>>, <<>>)
     ELSE IF r.value \notin DOMAIN brasao_templates
     THEN Raised("brasao", args, KeyError(r.value), <<>>, <<>>)
     ELSE Returned("brasao", args, URL_thumb \o d[r.value], <<>>, <<>>)

---------------------------------------------------------------------------
(* The time series shortcuts.                                              *)

bacen_serie(op, args, cod, kwargs, resp) ==
  fetch(op, args, Request("bacen.serie", cod, kwargs), resp)

ipea_serie(op, args, cod, index, resp) ==
  fetch(op, args, Request("ipea.serie", cod, {<<"index", index>>}), resp)

ipca_call(kwargs, resp) ==
  bacen_serie("ipca", ArgsBacen(kwargs), 433, kwargs, resp)
selic_call(kwargs, resp) ==
  bacen_serie("selic", ArgsBacen(kwargs), 432, kwargs, resp)
taxa_referencial_call(kwargs, resp) ==
  bacen_serie("taxa_referencial", ArgsBacen(kwargs), 226, kwargs, resp)
rentabilidade_poupanca_call(kwargs, resp) ==
  bacen_serie("rentabilidade_poupanca", ArgsBacen(kwargs), 195, kwargs, resp)

\* an argument the caller leaves out takes the signature's default
Omitted == <<-2>>

ValueError(msg) == [type |-> "ValueError", origin |-> "favoritos", message |-> msg]

periodo_default == W_mensal
\* (variant: the accented spellings are missing)
PERIODOS_DIARIA_sem_acento == <<W_diaria, W_diario>>
PERIODOS_DIARIA == <<W_diaria, W_diario, W_diario_ac, W_diaria_ac>>

\* (variant: the series is fetched before periodo is looked at)
reservas_internacionais_call_eager(given, kwargs, resp) ==
  LET args == ArgsReservas(given, kwargs)
      periodo == IF given = Omitted THEN periodo_default ELSE given
      cod == IF lower(periodo) = W_mensal THEN 3546 ELSE 13621
      got == bacen_serie("reservas_internacionais", args, cod, kwargs, resp)
  IN IF lower(periodo) = W_mensal \/ lower(periodo) \in Range(PERIODOS_DIARIA)
     THEN got
     ELSE Raised("reservas_internacionais", args, ValueError(MSG_periodo),
                 got.requests, got.responses)
reservas_internacionais_call(given, kwargs, resp) ==
  LET args == ArgsReservas(given, kwargs)
      periodo == IF given = Omitted THEN periodo_default ELSE given
  IN IF lower(periodo) = W_mensal
     THEN bacen_serie("reservas_internacionais", args, 3546, kwargs, resp)
     ELSE IF lower(periodo) \in Range(PERIODOS_DIARIA)
     THEN bacen_serie("reservas_internacionais", args, 13621, kwargs, resp)
     ELSE Raised("reservas_internacionais", args, ValueError(MSG_periodo),
                 <<>>, <<>>)

risco_brasil_call(index, resp) ==
  ipea_serie("risco_brasil", ArgsIpea(index), "JPM366_EMBI366", index, resp)

tipo_default == W_nominal

salario_minimo_call(given, index, resp) ==
  LET args == ArgsSalario(given, index)
      tipo == IF given = Omitted THEN tipo_default ELSE given
  IN IF lower(tipo) = W_nominal
     THEN ipea_serie("salario_minimo", args, "MTE12_SALMIN12", index, resp)
     ELSE IF lower(tipo) = W_real
     THEN ipea_serie("salario_minimo", args, "GAC12_SALMINRE12", index, resp)
     ELSE IF lower(tipo) = W_ppc
     THEN ipea_serie("salario_minimo", args, "GAC12_SALMINDOL12", index, resp)
     ELSE Raised("salario_minimo", args, ValueError(MSG_tipo), <<>>, <<>>)

---------------------------------------------------------------------------
(* The callers' inputs.                                                    *)

upper(s) == [i \in DOMAIN s |-> UpperCp(s[i])]
capitalize(s) ==
  [i \in DOMAIN s |-> IF i = 1 THEN UpperCp(s[i]) ELSE LowerCp(s[i])]
Casings(s) == {s, upper(s), capitalize(s)}

\* 'XX', '', 'sc', 'São Paulo', 'guanabara'
RawUFs ==
  StateCodes \cup
  { <<88,88>>, <<>>, <<115,99>>,
    <<83,227,111,32,80,97,117,108,111>>,
    <<103,117,97,110,97,98,97,114,97>> }

Tamanhos == (-MaxTamanho..MaxTamanho) \cup {100, 200, -200}

KwargOptions ==
  <<(<<"ultimos", "5">>), (<<"inicio", "2020-01-01">>), (<<"fim", "2020-12-31">>)>>
KwargsSets == SUBSET {KwargOptions[i] : i \in 1..MaxKwargs}

\* '', 'diarias'
Periodos ==
  {Omitted} \cup
  UNION {Casings(w) : w \in {W_mensal, W_diaria, W_diario, W_diario_ac,
                             W_diaria_ac, W_anual, <<>>, W_diaria \o <<115>>}}

\* 'reais'
Tipos ==
  {Omitted} \cup
  UNION {Casings(w) : w \in {W_nominal, W_real, W_ppc, W_bogus,
                             <<114,101,97,105,115>>}}

\* Upstream municipality tables: the five columns in some rotation or its
\* reverse, with up to MaxExtras more columns inserted at some place, or
\* with one of the five columns missing.
ExtraNames == <<"regiao", "populacao", "area", "ddd">>
Rotate(s, k) == [i \in DOMAIN s |-> s[((i - 1 + k) % Len(s)) + 1]]
Reverse(s) == [i \in DOMAIN s |-> s[Len(s) + 1 - i]]
Without(s, k) == [i \in 1..(Len(s) - 1) |-> IF i < k THEN s[i] ELSE s[i + 1]]
ColumnBases ==
  {SubSeq(COLUNAS, 1, p) \o SubSeq(ExtraNames, 1, n)
     \o SubSeq(COLUNAS, p + 1, Len(COLUNAS)) :
       p \in 0..Len(COLUNAS), n \in 0..MaxExtras}
  \cup {Without(COLUNAS, k) : k \in DOMAIN COLUNAS}
UpstreamColumns ==
  UNION {{Rotate(b, k), Reverse(Rotate(b, k))} : b \in ColumnBases, k \in 0..5}
JsonTableResponses ==
  {Answer(Frame(c, p)) : c \in UpstreamColumns, p \in Payloads}
    \cup {FrameFailure("URLError"), FrameFailure("ValueError")}

---------------------------------------------------------------------------
(* The state machine: one action per public operation.                     *)

Init ==
  /\ last = [op |-> "none", args |-> NoArgs, value |-> <<>>, requests |-> <<>>,
             responses |-> <<>>, status |-> "none", error |-> NoError]
  /\ repeated = FALSE

\* the call repeats the one made before it: same operation, same arguments
Repeats(call) == last.op = call.op /\ last.args = call.args

catalogo ==
  \E resp \in CsvResponses :
    /\ last' = catalogo_call(resp)
    /\ repeated' = Repeats(last')

geojson ==
  \E uf \in RawUFs, resp \in JsonResponses :
    /\ last' = geojson_call(uf, resp)
    /\ repeated' = Repeats(last')

codigos_municipios ==
  \E resp \in JsonTableResponses :
    /\ last' = codigos_municipios_call(resp)
    /\ repeated' = Repeats(last')

perfil_eleitorado ==
  \E resp \in CsvResponses :
    /\ last' = perfil_eleitorado_call(resp)
    /\ repeated' = Repeats(last')

bandeira ==
  \E uf \in RawUFs, tamanho \in Tamanhos :
    /\ last' = bandeira_call(uf, tamanho)
    /\ repeated' = Repeats(last')

brasao ==
  \E uf \in RawUFs, tamanho \in Tamanhos :
    /\ last' = brasao_call(uf, tamanho)
    /\ repeated' = Repeats(last')

ipca ==
  \E kwargs \in KwargsSets, resp \in SerieResponses :
    /\ last' = ipca_call(kwargs, resp)
    /\ repeated' = Repeats(last')

selic ==
  \E kwargs \in KwargsSets, resp \in SerieResponses :
    /\ last' = selic_call(kwargs, resp)
    /\ repeated' = Repeats(last')

taxa_referencial ==
  \E kwargs \in KwargsSets, resp \in SerieResponses :
    /\ last' = taxa_referencial_call(kwargs, resp)
    /\ repeated' = Repeats(last')

rentabilidade_poupanca ==
  \E kwargs \in KwargsSets, resp \in SerieResponses :
    /\ last' = rentabilidade_poupanca_call(kwargs, resp)
    /\ repeated' = Repeats(last')

reservas_internacionais ==
  \E periodo \in Periodos, kwargs \in KwargsSets, resp \in SerieResponses :
    /\ last' = reservas_internacionais_call(periodo, kwargs, resp)
    /\ repeated' = Repeats(last')

risco_brasil ==
  \E index \in BOOLEAN, resp \in SerieResponses :
    /\ last' = risco_brasil_call(index, resp)
    /\ repeated' = Repeats(last')

salario_minimo ==
  \E tipo \in Tipos, index \in BOOLEAN, resp \in SerieResponses :
    /\ last' = salario_minimo_call(tipo, index, resp)
    /\ repeated' = Repeats(last')

Next ==
  \/ catalogo
  \/ geojson
  \/ codigos_municipios
  \/ perfil_eleitorado
  \/ bandeira
  \/ brasao
  \/ ipca
  \/ selic
  \/ taxa_referencial
  \/ rentabilidade_poupanca
  \/ reservas_internacionais
  \/ risco_brasil
  \/ salario_minimo

Spec == Init /\ [][Next]_vars


---------------------------------------------------------------------------
(* Vocabulary of the properties.                                           *)

IsDigit(c) == c >= 48 /\ c <= 57

\* w is the lower-case form of s: s is w, letter for letter, up to capitals
IsLowerCaseOf(w, s) ==
  /\ Len(w) = Len(s)
  /\ \A i \in DOMAIN s :
       \/ s[i] = w[i] /\ ~IsUpperCp(s[i])
       \/ s[i] + 32 = w[i] /\ IsUpperCp(s[i])

StartsWith(s, prefix) ==
  Len(s) >= Len(prefix) /\ SubSeq(s, 1, Len(prefix)) = prefix

\* the values an error message quotes: the texts between its apostrophes
Apostrophes(msg) == {i \in DOMAIN msg : msg[i] = 39}
QuotedValues(msg) ==
  {SubSeq(msg, a + 1, b - 1) :
     <<a, b>> \in {p \in Apostrophes(msg) \X Apostrophes(msg) :
                    /\ p[1] < p[2]
                    /\ Cardinality({q \in Apostrophes(msg) : q < p[1]}) % 2 = 0
                    /\ \A q \in Apostrophes(msg) : ~(p[1] < q /\ q < p[2])}}

\* the decimal numeral d read back as an integer
RECURSIVE ParseNat(_)
ParseNat(d) ==
  IF d = <<>> THEN 0
  ELSE 10 * ParseNat(SubSeq(d, 1, Len(d) - 1)) + (d[Len(d)] - 48)
IsNumeral(d) ==
  LET digits == IF d # <<>> /\ d[1] = 45 THEN Tail(d) ELSE d
  IN /\ digits # <<>>
     /\ \A i \in DOMAIN digits : IsDigit(digits[i])
     /\ (Len(digits) > 1 => digits[1] # 48)
     /\ (d[1] = 45 => digits # <<48>>)
ParseInt(d) == IF d[1] = 45 THEN 0 - ParseNat(Tail(d)) ELSE ParseNat(d)

\* the size tokens of a URL: the places of a "px" that follows a digit
SizeTokens(s) ==
  {i \in 2..(Len(s) - 1) : s[i] = 112 /\ s[i + 1] = 120 /\ IsDigit(s[i - 1])}
\* where the numeral that ends just before place i begins
NumeralStart(s, i) ==
  CHOOSE a \in 1..(i - 1) :
    /\ \A j \in a..(i - 1) : IsDigit(s[j]) \/ s[j] = 45
    /\ a = 1 \/ ~(IsDigit(s[a - 1]) \/ s[a - 1] = 45)

GB == <<71,66>>
FN == <<70,78>>

Count(items, k) == Cardinality({i \in DOMAIN items : items[i][1] = k})

\* the call was answered by the collaborator: one request, whose answer or
\* failure is the call's outcome
DispatchedTo(fn, target, options) ==
  /\ last.requests = <<Request(fn, target, options)>>
  /\ Len(last.responses) = 1
  /\ IF last.responses[1].ok
     THEN last.status = "returned" /\ last.value = last.responses[1].value
     ELSE last.status = "raised" /\ last.error = last.responses[1].error

RejectedWith(type) ==
  /\ last.status = "raised"
  /\ last.error.type = type
  /\ last.requests = <<>>

---------------------------------------------------------------------------
(* C1 (as stated): every state code, FN and GB included, has exactly one   *)
(* entry in each of the three tables.                                      *)
C1_EveryTableHasEveryCode ==
  last.op \in {"geojson", "bandeira", "brasao"} =>
    \A c \in CurrentCodes \cup {FN, GB} :
      /\ c \in DOMAIN mapping /\ Count(mapping_items, c) = 1
      /\ c \in DOMAIN bandeira_templates /\ Count(bandeira_items, c) = 1
      /\ c \in DOMAIN brasao_templates /\ Count(brasao_items, c) = 1

(* C1 (amended): every current code has exactly one entry in each of the   *)
(* three tables; FN and GB have exactly one entry in the tables of         *)
(* bandeira and brasao and none in the table of geojson, which is never    *)
(* asked for them: no call ends in a KeyError of a table.                  *)
C1_TablesCoverTheirCodes ==
  /\ \A c \in CurrentCodes :
       /\ c \in DOMAIN mapping /\ Count(mapping_items, c) = 1
       /\ c \in DOMAIN bandeira_templates /\ Count(bandeira_items, c) = 1
       /\ c \in DOMAIN brasao_templates /\ Count(brasao_items, c) = 1
  /\ \A c \in {FN, GB} :
       /\ c \notin DOMAIN mapping /\ Count(mapping_items, c) = 0
       /\ c \in DOMAIN bandeira_templates /\ Count(bandeira_items, c) = 1
       /\ c \in DOMAIN brasao_templates /\ Count(brasao_items, c) = 1
  /\ (last.op \in {"geojson", "bandeira", "brasao"} /\ last.status = "raised")
       => last.error.type # "KeyError"

C1_Witness ==
  /\ last.op = "geojson"
  /\ last.args.uf = FN
  /\ last.status = "raised"

(* C2: geojson('GB') and geojson('FN') fail with the resolver's error;     *)
(* bandeira and brasao return a URL for them; for a current code none of   *)
(* the three fails in the resolver.                                        *)
C2_ExtinctCodes ==
  /\ (last.op = "geojson" /\ last.args.uf \in {GB, FN})
       => /\ last.status = "raised"
          /\ last.error.type = "DAB_UFError"
          /\ last.error.origin = "parse.uf"
  /\ (last.op \in {"bandeira", "brasao"} /\ last.args.uf \in {GB, FN})
       => /\ last.status = "returned"
          /\ StartsWith(last.value, URL_thumb)
  /\ (last.op \in {"geojson", "bandeira", "brasao"}
        /\ last.args.uf \in CurrentCodes)
       => last.error.origin # "parse.uf"

C2_Witness ==
  /\ last.op = "brasao"
  /\ last.args.uf = GB
  /\ last.status = "returned"

(* C3: reservas_internacionais dispatches on the lower-case form of        *)
(* periodo: the four spellings of 'diaria' to series 13621, 'mensal' (the  *)
(* default) to 3546, with the caller's options as they came and without    *)
(* periodo; anything else is rejected with ValueError.                     *)
C3_ReservasDispatch ==
  last.op = "reservas_internacionais" =>
    LET periodo == IF last.args.periodo = Omitted THEN W_mensal
                   ELSE last.args.periodo
        diaria == \E w \in {W_diaria, W_diario, W_diario_ac, W_diaria_ac} :
                    IsLowerCaseOf(w, periodo)
        mensal == IsLowerCaseOf(W_mensal, periodo)
    IN /\ diaria => DispatchedTo("bacen.serie", 13621, last.args.kwargs)
       /\ mensal => DispatchedTo("bacen.serie", 3546, last.args.kwargs)
       /\ ~(diaria \/ mensal) => RejectedWith("ValueError")
       /\ \A i \in DOMAIN last.requests :
            \A o \in last.requests[i].options : o[1] # "periodo"

C3_Witness ==
  /\ last.op = "reservas_internacionais"
  /\ last.args.periodo = <<68,73,193,82,73,65>>
  /\ last.args.kwargs # {}
  /\ last.status = "returned"

(* C4: salario_minimo dispatches on the lower-case form of tipo: 'nominal' *)
(* (the default) to MTE12_SALMIN12, 'real' to GAC12_SALMINRE12, 'ppc' to   *)
(* GAC12_SALMINDOL12, with the caller's index; anything else is rejected   *)
(* with ValueError.                                                        *)
C4_SalarioDispatch ==
  last.op = "salario_minimo" =>
    LET tipo == IF last.args.tipo = Omitted THEN W_nominal ELSE last.args.tipo
        index == {<<"index", last.args.index>>}
        nominal == IsLowerCaseOf(W_nominal, tipo)
        real == IsLowerCaseOf(W_real, tipo)
        ppc == IsLowerCaseOf(W_ppc, tipo)
    IN /\ nominal => DispatchedTo("ipea.serie", "MTE12_SALMIN12", index)
       /\ real => DispatchedTo("ipea.serie", "GAC12_SALMINRE12", index)
       /\ ppc => DispatchedTo("ipea.serie", "GAC12_SALMINDOL12", index)
       /\ ~(nominal \/ real \/ ppc) => RejectedWith("ValueError")

C4_Witness ==
  /\ last.op = "salario_minimo"
  /\ last.args.tipo = <<82,69,65,76>>
  /\ last.args.index
  /\ last.status = "returned"

\* what an operation makes of the variant string w, the collaborator willing
OutcomeOf(op, w) ==
  IF op = "reservas_internacionais"
  THEN reservas_internacionais_call(w, {}, Answer(1))
  ELSE salario_minimo_call(w, FALSE, Answer(1))
Accepts(op, w) == OutcomeOf(op, w).status = "returned"
SerieOf(op, w) == OutcomeOf(op, w).requests[1].target
Spellings(op) ==
  IF op = "reservas_internacionais" THEN Periodos \ {Omitted}
  ELSE Tipos \ {Omitted}
\* the message lists the spelling w: it quotes the lower-case form of w
Lists(msg, w) == \E v \in QuotedValues(msg) : IsLowerCaseOf(v, w)
VariantRejected ==
  /\ last.op \in {"reservas_internacionais", "salario_minimo"}
  /\ last.status = "raised"
  /\ last.error.type = "ValueError"
  /\ last.error.origin = "favoritos"

(* C5 (as stated): when reservas_internacionais or salario_minimo rejects  *)
(* a variant string, every spelling the operation accepts appears in the   *)
(* list of the error.                                                      *)
C5_ErrorListsEveryAcceptedSpelling ==
  VariantRejected =>
    \A w \in Spellings(last.op) :
      Accepts(last.op, w) => Lists(last.error.message, w)

(* C5 (amended): the error lists accepted values: every value it lists is  *)
(* accepted, every series the operation dispatches to is selected by a     *)
(* listed value, and every accepted spelling is listed except the aliases  *)
(* 'diario', 'diário' and 'diária' of reservas_internacionais.             *)
C5_ErrorListsAcceptedValues ==
  VariantRejected =>
    LET msg == last.error.message
        op == last.op
    IN /\ QuotedValues(msg) # {}
       /\ \A v \in QuotedValues(msg) : Accepts(op, v)
       /\ \A w \in Spellings(op) :
            Accepts(op, w) =>
              /\ \E v \in QuotedValues(msg) : SerieOf(op, v) = SerieOf(op, w)
              /\ \/ Lists(msg, w)
                 \/ /\ op = "reservas_internacionais"
                    /\ \E a \in {W_diario, W_diario_ac, W_diaria_ac} :
                         IsLowerCaseOf(a, w)

C5_Witness ==
  /\ VariantRejected
  /\ last.op = "salario_minimo"
  /\ last.args.tipo = W_bogus

(* C6: for every accepted state code and every integer size, bandeira and  *)
(* brasao return the base URL followed by the state's fragment with the    *)
(* size written once, as '<n>px', and no other size token; they fail only  *)
(* when the resolver rejects uf.                                           *)
C6_SizeSubstitutedOnce ==
  last.op \in {"bandeira", "brasao"} =>
    LET items == IF last.op = "bandeira" THEN bandeira_items ELSE brasao_items
        s == last.value
        n == last.args.tamanho
    IN /\ last.status = "raised"
            => last.error.type = "DAB_UFError" /\ last.error.origin = "parse.uf"
       /\ last.args.uf \in CurrentCodes \cup {FN, GB} => last.status = "returned"
       /\ last.status = "returned" =>
            /\ Cardinality(SizeTokens(s)) = 1
            /\ LET i == CHOOSE i \in SizeTokens(s) : TRUE
                   a == NumeralStart(s, i)
                   numeral == SubSeq(s, a, i - 1)
               IN /\ IsNumeral(numeral)
                  /\ ParseInt(numeral) = n
                  /\ \E k \in DOMAIN items :
                       /\ last.args.uf \in CurrentCodes \cup {FN, GB}
                            => items[k][1] = last.args.uf
                       /\ Len(items[k][2]) = 3
                       /\ SubSeq(s, 1, a - 1) = URL_thumb \o items[k][2][1]
                       /\ SubSeq(s, i, Len(s)) = items[k][2][3]

C6_Witness ==
  /\ last.op = "bandeira"
  /\ last.args.uf = FN
  /\ last.args.tamanho < 0
  /\ last.status = "returned"

(* C7: for a fixed size, bandeira (and brasao) give two different state    *)
(* codes two different URLs, and give the same URL again when the call is  *)
(* repeated with the same state and size.                                  *)
C7_DistinctStableURL ==
  [][ ( /\ last.op \in {"bandeira", "brasao"}
        /\ last'.op = last.op
        /\ last.status = "returned"
        /\ last'.status = "returned"
        /\ last'.args.tamanho = last.args.tamanho )
      => /\ last'.args.uf = last.args.uf => last'.value = last.value
         /\ ( /\ last.args.uf \in CurrentCodes \cup {FN, GB}
              /\ last'.args.uf \in CurrentCodes \cup {FN, GB}
              /\ last'.args.uf # last.args.uf )
            => last'.value # last.value ]_vars

C7_Witness ==
  /\ repeated
  /\ last.op = "brasao"
  /\ last.args.uf = <<83,69>>
  /\ last.status = "returned"

(* C8: codigos_municipios returns the columns codigo_tse, codigo_ibge,     *)
(* nome_municipio, uf, capital, in that order, for every upstream table    *)
(* that holds them, whatever else it holds and in whatever order.          *)
C8_ColumnsSelectedInOrder ==
  ( /\ last.op = "codigos_municipios"
    /\ last.responses[1].ok
    /\ {"codigo_tse", "codigo_ibge", "nome_municipio", "uf", "capital"}
         \subseteq Range(last.responses[1].value.columns) )
  => /\ last.status = "returned"
     /\ last.value.columns =
          <<"codigo_tse", "codigo_ibge", "nome_municipio", "uf", "capital">>
     /\ last.value.data = last.responses[1].value.data

C8_Witness ==
  /\ last.op = "codigos_municipios"
  /\ last.status = "returned"
  /\ Len(last.responses[1].value.columns) > 5
  /\ last.responses[1].value.columns[1] = "capital"

(* C9: every call issues at most one request to a collaborator: bandeira   *)
(* and brasao none; catalogo, codigos_municipios and perfil_eleitorado     *)
(* exactly one, also when the call repeats the one before; and a request   *)
(* that fails is the last of its call, whose outcome is that failure.      *)
C9_AtMostOneRequest ==
  /\ Len(last.requests) <= 1
  /\ Len(last.responses) = Len(last.requests)
  /\ last.op \in {"bandeira", "brasao"} => last.requests = <<>>
  /\ last.op \in {"catalogo", "codigos_municipios", "perfil_eleitorado"}
       => Len(last.requests) = 1
  /\ \A i \in DOMAIN last.responses :
       ~last.responses[i].ok =>
         /\ i = Len(last.requests)
         /\ last.status = "raised"
         /\ last.error = last.responses[i].error

C9_Witness ==
  /\ repeated
  /\ last.op = "catalogo"
  /\ last.status = "raised"
  /\ Len(last.requests) = 1

(* C10: validation comes before dispatch: when the resolver rejects the    *)
(* state of geojson, or reservas_internacionais or salario_minimo rejects  *)
(* its variant string, no request has been issued.                         *)
C10_ValidationBeforeDispatch ==
  ( /\ last.status = "raised"
    /\ \/ last.op = "geojson" /\ last.error.type = "DAB_UFError"
       \/ /\ last.op \in {"reservas_internacionais", "salario_minimo"}
          /\ last.error.type = "ValueError"
          /\ last.error.origin = "favoritos" )
  => last.requests = <<>> /\ last.responses = <<>>

C10_Witness ==
  /\ last.op = "reservas_internacionais"
  /\ last.args.periodo = W_anual
  /\ last.status = "raised"
  /\ last.error.type = "ValueError"

===========================================================================
